---- MODULE Spec2Model ----
(***************************************************************************)
(* The FRR exporter's VRRP and BFD collectors (package collector).         *)
(*                                                                         *)
(* A scrape hands every collector the same metric channel (the sink) and   *)
(* calls its Update.  Update runs the vtysh command, decodes the JSON      *)
(* output and sends one metric per observation to the channel.             *)
(*                                                                         *)
(* JSON text is represented by the value it denotes: a tagged record, or   *)
(* JBad for bytes that are not JSON at all (truncated, plain text).  The   *)
(* integers written out are those below 2^31; JBig stands for a literal    *)
(* that does not fit a uint32.                                             *)
(* json.Unmarshal is modelled on that value: the type checks, the range    *)
(* check of uint32, the absent/null/present cases of the pointer fields.   *)
(* Object keys are spelled as the daemon spells them (encoding/json would  *)
(* also accept other casings of a key) and strings are ASCII.              *)
(***************************************************************************)
EXTENDS Integers, Sequences, FiniteSets, Bags, TLC

VARIABLES
    sink,   \* the metric channel of the current scrape: the metrics sent, in order
    vrrp,   \* the VRRP collector's invocation: position and locals of Update
    bfd     \* the BFD collector's invocation: position and locals of Update

vars == <<sink, vrrp, bfd>>

(***************************************************************************)
(* Bounds of the model.                                                    *)
(***************************************************************************)
\* the longest VRRP list built from RecordPool and the longest BFD table built from
\* PeerPool
MaxRecords == 2
MaxPeers == 2

(***************************************************************************)
(* JSON values.                                                            *)
(***************************************************************************)
JBad == [t |-> "bad"]
JNull == [t |-> "null"]
JNum(n) == [t |-> "num", n |-> n]
\* an integer literal above 4294967295, the largest uint32
JBig == [t |-> "big"]
JStr(s) == [t |-> "str", s |-> s]
JArr(a) == [t |-> "arr", a |-> a]
JObj(o) == [t |-> "obj", o |-> o]

\* the object o without the keys outside K
Only(o, K) == [k \in (DOMAIN o) \cap K |-> o[k]]

\* the object o with key k bound to v
With(o, k, v) == [x \in (DOMAIN o) \cup {k} |-> IF x = k THEN v ELSE o[x]]

EmptyObj == [k \in {} |-> JNull]

(***************************************************************************)
(* Strings.  Runes gives the code points of the strings that are compared  *)
(* under case folding; Fold is the case folding of one ASCII code point.   *)
(***************************************************************************)
Runes(s) ==
    CASE s = "" -> <<>>
      [] s = "Initialize" -> <<73, 110, 105, 116, 105, 97, 108, 105, 122, 101>>
      [] s = "INITIALIZE" -> <<73, 78, 73, 84, 73, 65, 76, 73, 90, 69>>
      [] s = "Master" -> <<77, 97, 115, 116, 101, 114>>
      [] s = "master" -> <<109, 97, 115, 116, 101, 114>>
      [] s = "MASTER" -> <<77, 65, 83, 84, 69, 82>>
      [] s = "Mast" -> <<77, 97, 115, 116>>
      [] s = "Backup" -> <<66, 97, 99, 107, 117, 112>>
      [] s = "bACKUP" -> <<98, 65, 67, 75, 85, 80>>
      [] s = "Fault" -> <<70, 97, 117, 108, 116>>
      [] s = "up" -> <<117, 112>>
      [] s = "down" -> <<100, 111, 119, 110>>
      [] s = "init" -> <<105, 110, 105, 116>>

Fold(c) == IF c \in 65..90 THEN c + 32 ELSE c

\* the comparison without case folding: instance.Status == state
EqualExact(s, t) == Runes(s) = Runes(t)

\* strings.EqualFold: equal length and equal code points under case folding
EqualFold(s, t) ==
    LET a == Runes(s)
        b == Runes(t)
    IN  /\ Len(a) = Len(b)
        /\ \A i \in 1..Len(a) : Fold(a[i]) = Fold(b[i])

Digit(d) == <<"0", "1", "2", "3", "4", "5", "6", "7", "8", "9">>[d + 1]

RECURSIVE FormatUint(_)
\* strconv.FormatUint(n, 10): the decimal digits of n, most significant first
FormatUint(n) == IF n < 10 THEN Digit(n) ELSE FormatUint(n \div 10) \o Digit(n % 10)

(***************************************************************************)
(* The decoded structures (vrrp.go: VrrpVrInfo, VrrpInstanceInfo,          *)
(* VrrpInstanceStats).  A *uint32 is <<>> (nil) or <<n>>.                  *)
(***************************************************************************)
StatFields == <<"adverTx", "adverRx", "garpTx", "neighborAdverTx", "transitions">>

StatFieldSet == {StatFields[i] : i \in 1..Len(StatFields)}

VrrpInstanceStats == [f \in StatFieldSet |-> <<>>]

VrrpInstanceInfo == [Subinterface |-> "", Status |-> "", Statistics |-> VrrpInstanceStats]

VrrpVrInfo == [Vrid |-> 0, Interface |-> "", V6Info |-> VrrpInstanceInfo, V4Info |-> VrrpInstanceInfo]

(***************************************************************************)
(* json.Unmarshal into these structures.  Each decoder returns             *)
(* [err, v]: whether the value was rejected, and the decoded value.  An    *)
(* absent key and a JSON null leave the field at its zero value.           *)
(***************************************************************************)
Has(o, k) == k \in DOMAIN o /\ o[k].t # "null"

\* a uint32 field: a negative number, a JBig and a value of another type are rejected
DecodeUint32(j) ==
    IF j.t = "num" /\ j.n >= 0
    THEN [err |-> FALSE, v |-> j.n]
    ELSE [err |-> TRUE, v |-> 0]

DecodeString(j) ==
    IF j.t = "str" THEN [err |-> FALSE, v |-> j.s] ELSE [err |-> TRUE, v |-> ""]

\* the five fields declared *int32: negative numbers are accepted
DecodeStatsSigned(j) ==
    IF j.t # "obj" THEN [err |-> TRUE, v |-> VrrpInstanceStats]
    ELSE [err |-> \E f \in StatFieldSet : Has(j.o, f) /\ j.o[f].t # "num",
          v |-> [f \in StatFieldSet |->
                    IF Has(j.o, f) /\ j.o[f].t = "num" THEN <<j.o[f].n>> ELSE <<>>]]

\* the statistics object: each field a *uint32, nil unless its key holds a number
DecodeStats(j) ==
    IF j.t # "obj" THEN [err |-> TRUE, v |-> VrrpInstanceStats]
    ELSE LET D(f) == DecodeUint32(j.o[f])
         IN  [err |-> \E f \in StatFieldSet : Has(j.o, f) /\ D(f).err,
              v |-> [f \in StatFieldSet |->
                        IF Has(j.o, f) /\ ~D(f).err THEN <<D(f).v>> ELSE <<>>]]

DecodeInstance(j) ==
    IF j.t # "obj" THEN [err |-> TRUE, v |-> VrrpInstanceInfo]
    ELSE LET sub == IF Has(j.o, "interface") THEN DecodeString(j.o["interface"])
                    ELSE [err |-> FALSE, v |-> ""]
             st == IF Has(j.o, "status") THEN DecodeString(j.o["status"])
                   ELSE [err |-> FALSE, v |-> ""]
             stats == IF Has(j.o, "stats") THEN DecodeStats(j.o["stats"])
                      ELSE [err |-> FALSE, v |-> VrrpInstanceStats]
         IN  [err |-> sub.err \/ st.err \/ stats.err,
              v |-> [Subinterface |-> sub.v, Status |-> st.v, Statistics |-> stats.v]]

DecodeVr(j) ==
    IF j.t = "null" THEN [err |-> FALSE, v |-> VrrpVrInfo]
    ELSE IF j.t # "obj" THEN [err |-> TRUE, v |-> VrrpVrInfo]
    ELSE LET id == IF Has(j.o, "vrid") THEN DecodeUint32(j.o["vrid"])
                   ELSE [err |-> FALSE, v |-> 0]
             ifc == IF Has(j.o, "interface") THEN DecodeString(j.o["interface"])
                    ELSE [err |-> FALSE, v |-> ""]
             v4 == IF Has(j.o, "v4") THEN DecodeInstance(j.o["v4"])
                   ELSE [err |-> FALSE, v |-> VrrpInstanceInfo]
             v6 == IF Has(j.o, "v6") THEN DecodeInstance(j.o["v6"])
                   ELSE [err |-> FALSE, v |-> VrrpInstanceInfo]
         IN  [err |-> id.err \/ ifc.err \/ v4.err \/ v6.err,
              v |-> [Vrid |-> id.v, Interface |-> ifc.v, V6Info |-> v6.v, V4Info |-> v4.v]]

\* json.Unmarshal(jsonVRRPInfo, &jsonList): the list is used only when err is FALSE
UnmarshalVrrp(j) ==
    IF j.t = "null" THEN [err |-> FALSE, v |-> <<>>]
    ELSE IF j.t # "arr" THEN [err |-> TRUE, v |-> <<>>]
    ELSE LET D(i) == DecodeVr(j.a[i])
         IN  IF \E i \in 1..Len(j.a) : D(i).err
             THEN [err |-> TRUE, v |-> <<>>]
             ELSE [err |-> FALSE, v |-> [i \in 1..Len(j.a) |-> D(i).v]]

(***************************************************************************)
(* Metrics.  A metric is what newGauge and newCounter send to the channel: *)
(* the descriptor, the kind, the value and the positional label values.    *)
(***************************************************************************)
labels == <<"proto", "vrid", "interface", "subinterface">>

stateLabels == Append(labels, "state")

colPromDesc(subsystem, name, labelNames) ==
    [fqName |-> "frr_" \o subsystem \o "_" \o name, labelNames |-> labelNames]

vrrpSubsystem == "vrrp"

getVRRPDesc ==
    [vrrpState |-> colPromDesc(vrrpSubsystem, "state", stateLabels),
     adverTx |-> colPromDesc(vrrpSubsystem, "advertisements_sent_total", labels),
     adverRx |-> colPromDesc(vrrpSubsystem, "advertisements_received_total", labels),
     garpTx |-> colPromDesc(vrrpSubsystem, "gratuitous_arp_sent_total", labels),
     neighborAdverTx |-> colPromDesc(vrrpSubsystem, "neighbor_advertisements_sent_total", labels),
     transitions |-> colPromDesc(vrrpSubsystem, "state_transitions_total", labels)]

newGauge(desc, value, labelValues) ==
    [desc |-> desc, kind |-> "gauge", value |-> value, labelValues |-> labelValues]

newCounter(desc, value, labelValues) ==
    [desc |-> desc, kind |-> "counter", value |-> value, labelValues |-> labelValues]

(***************************************************************************)
(* processInstance, statement by statement.  Statements 1..3 are the       *)
(* iterations of the loop over vrrpStates, statements 4..8 the five        *)
(* `if ... != nil` blocks.  Each sends at most one metric.                 *)
(***************************************************************************)
vrrpStates == <<"Initialize", "Master", "Backup">>

InstanceStatements == Len(vrrpStates) + Len(StatFields)

\* the label values with the empty ones left out
vrrpLabelsDropEmpty(proto, vrid, iface, instance) ==
    SelectSeq(<<proto, FormatUint(vrid), iface, instance.Subinterface>>, LAMBDA v : v # "")

vrrpLabels(proto, vrid, iface, instance) ==
    <<proto, FormatUint(vrid), iface, instance.Subinterface>>

\* one iteration of `for _, state := range vrrpStates`
stateGauge(proto, vrid, iface, instance, state) ==
    newGauge(getVRRPDesc.vrrpState,
             IF EqualFold(instance.Status, state) THEN 1 ELSE 0,
             Append(vrrpLabels(proto, vrid, iface, instance), state))

\* the counter sent only for a value other than 0: zero taken for "not reported"
statCounterNonZero(proto, vrid, iface, instance, f) ==
    IF instance.Statistics[f] # <<>> /\ instance.Statistics[f][1] # 0
    THEN <<newCounter(getVRRPDesc[f], instance.Statistics[f][1],
                      vrrpLabels(proto, vrid, iface, instance))>>
    ELSE <<>>

\* one `if instance.Statistics.F != nil { newCounter(...) }`
statCounter(proto, vrid, iface, instance, f) ==
    IF instance.Statistics[f] # <<>>
    THEN <<newCounter(getVRRPDesc[f], instance.Statistics[f][1],
                      vrrpLabels(proto, vrid, iface, instance))>>
    ELSE <<>>

\* the metrics statement `stmt` of processInstance sends
processInstance(proto, vrid, iface, instance, stmt) ==
    IF stmt <= Len(vrrpStates)
    THEN <<stateGauge(proto, vrid, iface, instance, vrrpStates[stmt])>>
    ELSE statCounter(proto, vrid, iface, instance, StatFields[stmt - Len(vrrpStates)])

FamiliesV6First == <<"v6", "v4">>

\* the two calls of the loop body of processVRRPInfo, in order
Families == <<"v4", "v6">>

InstanceOf(vrInfo, proto) == IF proto = "v4" THEN vrInfo.V4Info ELSE vrInfo.V6Info

(***************************************************************************)
(* The VRRP collector's invocation.                                        *)
(*   pc     idle: not called in this scrape; exec: in Update, before the   *)
(*          command; process: in processVRRPInfo, before json.Unmarshal;   *)
(*          loop: in the range loop; done: Update has returned err         *)
(*   raw    jsonVRRPInfo, the command's output                             *)
(*   list   jsonList                                                       *)
(*   rec, fam, stmt   the record, the family call and the statement of     *)
(*          processInstance that runs next                                 *)
(***************************************************************************)
NoOutput == [t |-> "none"]

NoError == [kind |-> "nil", cmd |-> "", output |-> NoOutput]

CommandError == [kind |-> "command", cmd |-> "", output |-> NoOutput]

\* cmdOutputProcessError(cmd, output, err): the decode error with the command
\* string and the raw output
cmdOutputProcessError(cmd, output) == [kind |-> "decode", cmd |-> cmd, output |-> output]

Idle == [pc |-> "idle", raw |-> NoOutput, list |-> <<>>, rec |-> 0, fam |-> 0, stmt |-> 0,
         err |-> NoError]

Returned(c, e) == [c EXCEPT !.pc = "done", !.err = e]

vrrpCmd == "show vrrp json"

\* the decode error looked at only after the loop: the records decoded so far are
\* walked first
VrrpAfterUnmarshalLate(c) ==
    LET d == UnmarshalVrrp(c.raw)
        partial == IF c.raw.t = "arr" THEN [i \in 1..Len(c.raw.a) |-> DecodeVr(c.raw.a[i]).v]
                   ELSE <<>>
    IN  IF partial = <<>>
        THEN Returned(c, IF d.err THEN cmdOutputProcessError(vrrpCmd, c.raw) ELSE NoError)
        ELSE [c EXCEPT !.pc = "loop", !.list = partial, !.rec = 1, !.fam = 1, !.stmt = 1]

\* processVRRPInfo up to the range loop: json.Unmarshal, `return err` on a
\* decode error (wrapped by Update), the loop's first position otherwise
VrrpAfterUnmarshal(c) ==
    LET d == UnmarshalVrrp(c.raw)
    IN  IF d.err THEN Returned(c, cmdOutputProcessError(vrrpCmd, c.raw))
        ELSE IF d.v = <<>> THEN Returned(c, NoError)
        ELSE [c EXCEPT !.pc = "loop", !.list = d.v, !.rec = 1, !.fam = 1, !.stmt = 1]

\* the label values kept in a buffer the collectors share: the BFD collector's
\* peer labels overwrite the first two while it is in its loop
VrrpSendsSharedLabels(c) ==
    LET vrInfo == c.list[c.rec]
        proto == Families[c.fam]
        ms == processInstance(proto, vrInfo.Vrid, vrInfo.Interface, InstanceOf(vrInfo, proto), c.stmt)
    IN  IF bfd.pc = "loop" /\ bfd.rec > 0
        THEN [i \in 1..Len(ms) |->
                 [ms[i] EXCEPT !.labelValues[1] = bfd.list[bfd.rec].Local,
                               !.labelValues[2] = bfd.list[bfd.rec].Peer]]
        ELSE ms

\* the metrics the statement at the collector's position sends
VrrpSends(c) ==
    LET vrInfo == c.list[c.rec]
        proto == Families[c.fam]
    IN  processInstance(proto, vrInfo.Vrid, vrInfo.Interface, InstanceOf(vrInfo, proto), c.stmt)

\* a family whose sub-record is empty skipped: the v6 call left out for it
VrrpAdvanceSkipInactive(c) ==
    LET v6 == c.list[c.rec].V6Info
        more == c.fam < Len(Families) /\ ~(v6.Status = "" /\ v6.Statistics = VrrpInstanceStats)
    IN  IF c.stmt < InstanceStatements THEN [c EXCEPT !.stmt = c.stmt + 1]
        ELSE IF more THEN [c EXCEPT !.fam = c.fam + 1, !.stmt = 1]
        ELSE IF c.rec < Len(c.list) THEN [c EXCEPT !.rec = c.rec + 1, !.fam = 1, !.stmt = 1]
        ELSE [Returned(c, NoError) EXCEPT !.rec = 0, !.fam = 0, !.stmt = 0]

\* the position after that statement: the next statement, the next family call,
\* the next record, or `return nil`
VrrpAdvance(c) ==
    IF c.stmt < InstanceStatements THEN [c EXCEPT !.stmt = c.stmt + 1]
    ELSE IF c.fam < Len(Families) THEN [c EXCEPT !.fam = c.fam + 1, !.stmt = 1]
    ELSE IF c.rec < Len(c.list) THEN [c EXCEPT !.rec = c.rec + 1, !.fam = 1, !.stmt = 1]
    ELSE [Returned(c, NoError) EXCEPT !.rec = 0, !.fam = 0, !.stmt = 0]

(***************************************************************************)
(* The BFD collector (bfd.go), with the same shape: the peer count first,  *)
(* then per peer the uptime counter and the state gauge.                   *)
(***************************************************************************)
bfdSubsystem == "bfd"

bfdLabels == <<"local", "peer">>

getBFDDesc ==
    [bfdPeerCount |-> colPromDesc(bfdSubsystem, "peer_count", <<>>),
     bfdPeerUptime |-> colPromDesc(bfdSubsystem, "peer_uptime", bfdLabels),
     bfdPeerState |-> colPromDesc(bfdSubsystem, "peer_state", bfdLabels)]

bfdPeer == [Local |-> "", Peer |-> "", Uptime |-> 0, Status |-> ""]

DecodePeer(j) ==
    IF j.t = "null" THEN [err |-> FALSE, v |-> bfdPeer]
    ELSE IF j.t # "obj" THEN [err |-> TRUE, v |-> bfdPeer]
    ELSE LET F(k, D(_), zero) == IF Has(j.o, k) THEN D(j.o[k]) ELSE [err |-> FALSE, v |-> zero]
             local == F("local", DecodeString, "")
             peer == F("peer", DecodeString, "")
             uptime == F("uptime", DecodeUint32, 0)
             status == F("status", DecodeString, "")
         IN  [err |-> local.err \/ peer.err \/ uptime.err \/ status.err,
              v |-> [Local |-> local.v, Peer |-> peer.v, Uptime |-> uptime.v,
                     Status |-> status.v]]

UnmarshalBfd(j) ==
    IF j.t = "null" THEN [err |-> FALSE, v |-> <<>>]
    ELSE IF j.t # "arr" THEN [err |-> TRUE, v |-> <<>>]
    ELSE LET D(i) == DecodePeer(j.a[i])
         IN  IF \E i \in 1..Len(j.a) : D(i).err
             THEN [err |-> TRUE, v |-> <<>>]
             ELSE [err |-> FALSE, v |-> [i \in 1..Len(j.a) |-> D(i).v]]

bfdCmd == "show bfd peers json"

PeerStatements == 2

\* the peer count taken over the peers that are up only
processBFDPeersCountUp(bfdPeers, rec, stmt) ==
    IF rec = 0
    THEN <<newGauge(getBFDDesc.bfdPeerCount,
                    Cardinality({i \in 1..Len(bfdPeers) : bfdPeers[i].Status = "up"}), <<>>)>>
    ELSE LET p == bfdPeers[rec]
             peerLabels == <<p.Local, p.Peer>>
         IN  IF stmt = 1 THEN <<newCounter(getBFDDesc.bfdPeerUptime, p.Uptime, peerLabels)>>
             ELSE <<newGauge(getBFDDesc.bfdPeerState,
                             IF EqualFold(p.Status, "up") THEN 1 ELSE 0, peerLabels)>>

\* the metrics statement `stmt` of processBFDPeers sends: before the loop the
\* peer count, in the loop the peer's uptime and then its state
processBFDPeers(bfdPeers, rec, stmt) ==
    IF rec = 0 THEN <<newGauge(getBFDDesc.bfdPeerCount, Len(bfdPeers), <<>>)>>
    ELSE LET p == bfdPeers[rec]
             peerLabels == <<p.Local, p.Peer>>
         IN  IF stmt = 1 THEN <<newCounter(getBFDDesc.bfdPeerUptime, p.Uptime, peerLabels)>>
             ELSE <<newGauge(getBFDDesc.bfdPeerState,
                             IF EqualFold(p.Status, "up") THEN 1 ELSE 0, peerLabels)>>

BfdAfterUnmarshal(c) ==
    LET d == UnmarshalBfd(c.raw)
    IN  IF d.err THEN Returned(c, cmdOutputProcessError(bfdCmd, c.raw))
        ELSE [c EXCEPT !.pc = "loop", !.list = d.v, !.rec = 0, !.stmt = 1]

BfdSends(c) == processBFDPeers(c.list, c.rec, c.stmt)

\* the state gauge of a peer that is not up left out
BfdAdvanceUpOnly(c) ==
    LET skip == c.rec > 0 /\ c.stmt = 1 /\ c.list[c.rec].Status # "up"
    IN  IF c.rec > 0 /\ c.stmt < PeerStatements /\ ~skip THEN [c EXCEPT !.stmt = c.stmt + 1]
        ELSE IF c.rec < Len(c.list) THEN [c EXCEPT !.rec = c.rec + 1, !.stmt = 1]
        ELSE [Returned(c, NoError) EXCEPT !.rec = 0, !.stmt = 0]

BfdAdvance(c) ==
    IF c.rec > 0 /\ c.stmt < PeerStatements THEN [c EXCEPT !.stmt = c.stmt + 1]
    ELSE IF c.rec < Len(c.list) THEN [c EXCEPT !.rec = c.rec + 1, !.stmt = 1]
    ELSE [Returned(c, NoError) EXCEPT !.rec = 0, !.stmt = 0]

(***************************************************************************)
(* Command outputs the model draws from.                                   *)
(***************************************************************************)
Statuses ==
    {"", "Initialize", "INITIALIZE", "Master", "master", "MASTER", "Mast", "Backup",
     "bACKUP", "Fault"}

StatSample ==
    [adverTx |-> JNum(6), adverRx |-> JNum(0), garpTx |-> JNum(1),
     neighborAdverTx |-> JNum(3), transitions |-> JNum(2)]

\* every combination of present and absent statistics, and a few more values
StatsObjs ==
    {JObj(Only(StatSample, K)) : K \in SUBSET StatFieldSet}
        \cup {JObj(With(EmptyObj, "adverTx", JNum(5))),
              JObj([f \in StatFieldSet |-> JNum(0)]),
              JObj(With(Only(StatSample, {"adverTx"}), "adverRx", JNull)),
              JObj(With(EmptyObj, "transitions", JNum(2147483647)))}

FewStats ==
    {JObj(EmptyObj), JObj(With(EmptyObj, "adverTx", JNum(5))), JObj(StatSample)}

\* statistics json.Unmarshal rejects
BadStats ==
    {JObj(With(EmptyObj, "garpTx", JNum(-1))),
     JObj(With(StatSample, "transitions", JBig)),
     JObj(With(EmptyObj, "adverRx", JStr("5"))),
     JArr(<<>>)}

JInstance(sub, status, stats) ==
    JObj([interface |-> JStr(sub), status |-> JStr(status), stats |-> stats])

JVr(vrid, iface, v4, v6) ==
    JObj([vrid |-> vrid, interface |-> JStr(iface), v4 |-> v4, v6 |-> v6])

\* a virtual router that runs v4 only: the daemon's v6 object is empty
JVrV4(v4) == JVr(JNum(1), "eth0", v4, JObj(EmptyObj))

RecordPool ==
    {JVrV4(JInstance("vrrp4-1", "Master", JObj(With(EmptyObj, "adverTx", JNum(5))))),
     JVr(JNum(1), "eth0", JInstance("vrrp4-1", "Backup", JObj(StatSample)),
         JInstance("vrrp6-1", "Initialize", JObj(EmptyObj)))}

VrrpOutputs ==
    {JBad, JNull, JObj(EmptyObj), JArr(<<JNum(1)>>), JArr(<<JNull>>),
     JArr(<<JObj(EmptyObj)>>)}
        \cup {JArr(<<JVrV4(JInstance("vrrp4-1", st, stats))>>) :
                 st \in Statuses, stats \in FewStats}
        \cup {JArr(<<JVrV4(JInstance("vrrp4-1", st, stats))>>) :
                 st \in {"", "Master"}, stats \in StatsObjs \cup BadStats}
        \cup {JArr(<<JVr(JNum(n), iface, JInstance("", "Backup", JObj(EmptyObj)),
                         JInstance("vrrp6-1", "master", JObj(StatSample)))>>) :
                 n \in {0, 10, 255, 2147483647}, iface \in {"", "eth0"}}
        \cup {JArr(<<JVr(id, "eth0", JObj(EmptyObj), JObj(EmptyObj))>>) :
                 id \in {JNum(-1), JBig, JStr("1")}}
        \cup {JArr(a) : a \in UNION {[1..n -> RecordPool] : n \in 2..MaxRecords}}

JPeer(peer, uptime, status) ==
    JObj([local |-> JStr("10.10.141.81"), peer |-> JStr(peer), uptime |-> uptime,
          status |-> JStr(status)])

PeerPool ==
    {JPeer("10.10.141.61", JNum(847716), "up"), JPeer("10.10.141.63", JNum(847888), "down")}

\* testdata/show_bfd_peers.json as bfd_test.go expects it decoded
BfdFixture ==
    JArr(<<JPeer("10.10.141.61", JNum(847716), "up"),
           JPeer("10.10.141.62", JNum(847595), "up"),
           JPeer("10.10.141.63", JNum(847888), "down")>>)

BfdOutputs ==
    {JBad, JNull, JObj(EmptyObj), JArr(<<JStr("x")>>), BfdFixture,
     JArr(<<JPeer("10.10.141.61", JNum(0), "init")>>),
     JArr(<<JPeer("10.10.141.61", JNum(-1), "up")>>),
     JArr(<<JPeer("10.10.141.61", JStr("847716"), "up")>>)}
        \cup {JArr(a) : a \in UNION {[1..n -> PeerPool] : n \in 0..MaxPeers}}

\* the outputs of the concurrent scrapes
ConcVrrpOutputs ==
    {JBad, JArr(<<>>),
     JArr(<<JVrV4(JInstance("vrrp4-1", "Master", JObj(With(EmptyObj, "adverTx", JNum(5)))))>>),
     JArr(<<JVr(JNum(10), "eth0", JInstance("", "Fault", JObj(EmptyObj)),
                JInstance("vrrp6-1", "bACKUP", JObj(Only(StatSample, {"adverRx", "transitions"}))))>>)}

ConcBfdOutputs ==
    {JBad} \cup {JArr(a) : a \in UNION {[1..n -> PeerPool] : n \in 0..MaxPeers}}

(***************************************************************************)
(* The state machine.  A scrape starts with an empty channel and calls     *)
(* each enabled collector's Update once; `serial` is the scheduler that    *)
(* runs one Update at a time.                                              *)
(***************************************************************************)
Init == sink = <<>> /\ vrrp = Idle /\ bfd = Idle

Resting(c) == c.pc \in {"idle", "done"}

\* vrrpCollector.Update is called
VrrpUpdate(serial) ==
    /\ vrrp.pc = "idle"
    /\ serial => Resting(bfd)
    /\ vrrp' = [vrrp EXCEPT !.pc = "exec"]
    /\ UNCHANGED <<sink, bfd>>

\* executeVRRPCommand(cmd) fails, and Update returns its error, or gives the output
VrrpExecute(outputs) ==
    /\ vrrp.pc = "exec"
    /\ \/ vrrp' = Returned(vrrp, CommandError)
       \/ \E out \in outputs : vrrp' = [vrrp EXCEPT !.pc = "process", !.raw = out]
    /\ UNCHANGED <<sink, bfd>>

\* processVRRPInfo decodes the output
VrrpUnmarshal ==
    /\ vrrp.pc = "process"
    /\ vrrp' = VrrpAfterUnmarshal(vrrp)
    /\ UNCHANGED <<sink, bfd>>

\* one statement of processInstance
VrrpStatement ==
    /\ vrrp.pc = "loop"
    /\ sink' = sink \o VrrpSends(vrrp)
    /\ vrrp' = VrrpAdvance(vrrp)
    /\ UNCHANGED bfd

BfdUpdate(serial) ==
    /\ bfd.pc = "idle"
    /\ serial => Resting(vrrp)
    /\ bfd' = [bfd EXCEPT !.pc = "exec"]
    /\ UNCHANGED <<sink, vrrp>>

BfdExecute(outputs) ==
    /\ bfd.pc = "exec"
    /\ \/ bfd' = Returned(bfd, CommandError)
       \/ \E out \in outputs : bfd' = [bfd EXCEPT !.pc = "process", !.raw = out]
    /\ UNCHANGED <<sink, vrrp>>

BfdUnmarshal ==
    /\ bfd.pc = "process"
    /\ bfd' = BfdAfterUnmarshal(bfd)
    /\ UNCHANGED <<sink, vrrp>>

BfdStatement ==
    /\ bfd.pc = "loop"
    /\ sink' = sink \o BfdSends(bfd)
    /\ bfd' = BfdAdvance(bfd)
    /\ UNCHANGED vrrp

\* the scrape is over: the next one has a channel of its own
Gather ==
    /\ Resting(vrrp) /\ Resting(bfd)
    /\ vrrp.pc = "done" \/ bfd.pc = "done"
    /\ sink' = <<>> /\ vrrp' = Idle /\ bfd' = Idle

Next ==
    \/ VrrpUpdate(TRUE)
    \/ VrrpExecute(VrrpOutputs)
    \/ VrrpUnmarshal
    \/ VrrpStatement
    \/ BfdUpdate(TRUE)
    \/ BfdExecute(BfdOutputs)
    \/ BfdUnmarshal
    \/ BfdStatement
    \/ Gather

Spec == Init /\ [][Next]_vars

NextConc ==
    \/ VrrpUpdate(FALSE)
    \/ VrrpExecute(ConcVrrpOutputs)
    \/ VrrpUnmarshal
    \/ VrrpStatement
    \/ BfdUpdate(FALSE)
    \/ BfdExecute(ConcBfdOutputs)
    \/ BfdUnmarshal
    \/ BfdStatement
    \/ Gather

SpecConc == Init /\ [][NextConc]_vars

(***************************************************************************)
(* What the properties below read off a state.  They name the metrics by   *)
(* their exported names and spell the expected values out, so that they    *)
(* do not lean on the operators of the collectors.                         *)
(***************************************************************************)
IsVrrp(m) ==
    m.desc.fqName \in
        {"frr_vrrp_state", "frr_vrrp_advertisements_sent_total",
         "frr_vrrp_advertisements_received_total", "frr_vrrp_gratuitous_arp_sent_total",
         "frr_vrrp_neighbor_advertisements_sent_total", "frr_vrrp_state_transitions_total"}

IsState(m) == m.desc.fqName = "frr_vrrp_state"

IsBfd(m) ==
    m.desc.fqName \in {"frr_bfd_peer_count", "frr_bfd_peer_uptime", "frr_bfd_peer_state"}

\* the VRRP metrics of the channel, the vrrp_state metrics among them, the BFD metrics
VrrpMetrics == SelectSeq(sink, IsVrrp)

StateMetrics == SelectSeq(sink, IsState)

BfdMetrics == SelectSeq(sink, IsBfd)

VrrpOk == vrrp.pc = "done" /\ vrrp.err.kind = "nil"

BfdOk == bfd.pc = "done" /\ bfd.err.kind = "nil"

\* the (record, family) blocks processInstance has completed: block 2r-1 is the
\* v4 call for record r, block 2r the v6 call
BlocksDone ==
    IF VrrpOk THEN 2 * Len(vrrp.list)
    ELSE IF vrrp.pc = "loop" THEN 2 * (vrrp.rec - 1) + (vrrp.fam - 1)
    ELSE 0

BlockRecord(b) == vrrp.list[(b + 1) \div 2]

BlockProto(b) == IF b % 2 = 1 THEN "v4" ELSE "v6"

BlockInstance(b) == IF b % 2 = 1 THEN BlockRecord(b).V4Info ELSE BlockRecord(b).V6Info

RECURSIVE SplitBlocks(_, _, _, _)
\* the metrics q[i..] cut into blocks: a block starts at every third vrrp_state
\* metric, counted from the first, and runs up to the next block
SplitBlocks(q, i, states, acc) ==
    IF i > Len(q) THEN acc
    ELSE IF acc = <<>> \/ (IsState(q[i]) /\ states % 3 = 0)
    THEN SplitBlocks(q, i + 1, states + (IF IsState(q[i]) THEN 1 ELSE 0), Append(acc, <<q[i]>>))
    ELSE SplitBlocks(q, i + 1, states + (IF IsState(q[i]) THEN 1 ELSE 0),
                     [acc EXCEPT ![Len(acc)] = Append(@, q[i])])

\* the blocks of the channel's VRRP metrics
Blocks == SplitBlocks(VrrpMetrics, 1, 0, <<>>)

StatesOf(blk) == SelectSeq(blk, IsState)

CountersIn(blk) == SelectSeq(blk, LAMBDA m : ~IsState(m))

\* the spellings of the three state names among Statuses
SpelledAs(state) ==
    CASE state = "Initialize" -> {"Initialize", "INITIALIZE"}
      [] state = "Master" -> {"Master", "master", "MASTER"}
      [] state = "Backup" -> {"Backup", "bACKUP"}

StateNames == <<"Initialize", "Master", "Backup">>

KnownStatus(status) == \E i \in 1..3 : status \in SpelledAs(StateNames[i])

\* the decimal strings of the virtual router ids of the outputs
DecimalOf(n) ==
    CASE n = 0 -> "0" [] n = 1 -> "1" [] n = 10 -> "10" [] n = 255 -> "255"
      [] n = 2147483647 -> "2147483647"

BaseLabels(b) ==
    <<BlockProto(b), DecimalOf(BlockRecord(b).Vrid), BlockRecord(b).Interface,
      BlockInstance(b).Subinterface>>

\* blk, the metrics of block b, holds three vrrp_state gauges, for Initialize,
\* Master and Backup, each with the block's base labels and a value of 0 or 1
ThreeStates(blk, b) ==
    LET st == StatesOf(blk)
    IN  /\ Len(st) = 3
        /\ \A i \in 1..3 :
              /\ st[i].kind = "gauge"
              /\ st[i].labelValues = Append(BaseLabels(b), StateNames[i])
              /\ st[i].value \in {0, 1}

StateSum(blk) == LET st == StatesOf(blk) IN st[1].value + st[2].value + st[3].value

\* C1, as stated: every completed (record, family) block holds exactly three
\* vrrp_state metrics, one per state, and their values sum to 1 whatever the
\* status string is.
C1_OneHotAlways ==
    LET blocks == Blocks
    IN  /\ Len(blocks) >= BlocksDone
        /\ \A b \in 1..BlocksDone : ThreeStates(blocks[b], b) /\ StateSum(blocks[b]) = 1

\* C1, amended: every completed (record, family) block holds exactly three
\* vrrp_state metrics, one per state of {Initialize, Master, Backup}, each 0 or 1;
\* the metric of a state is 1 exactly when the status is a spelling of that state's
\* name in any letter case, so the sum is 1 for such a status and 0 for every other
\* status, the empty one included.
C1_OneHotKnownStatus ==
    LET blocks == Blocks
    IN  /\ Len(blocks) >= BlocksDone
        /\ VrrpOk => Len(StateMetrics) = 3 * BlocksDone
        /\ \A b \in 1..BlocksDone :
              LET st == StatesOf(blocks[b])
              IN  /\ ThreeStates(blocks[b], b)
                  /\ \A i \in 1..3 :
                        st[i].value = 1 <=> BlockInstance(b).Status \in SpelledAs(StateNames[i])
                  /\ StateSum(blocks[b]) = IF KnownStatus(BlockInstance(b).Status) THEN 1 ELSE 0

\* a scrape has returned whose v4 status is a name in another letter case and whose
\* v6 status is empty
C1_Witness ==
    /\ VrrpOk /\ Len(vrrp.list) = 1
    /\ vrrp.list[1].V4Info.Status = "MASTER" /\ vrrp.list[1].V6Info.Status = ""
    /\ StateSum(Blocks[1]) = 1 /\ StateSum(Blocks[2]) = 0

\* the exported name of the counter of a statistics field
CounterName(f) ==
    CASE f = "adverTx" -> "frr_vrrp_advertisements_sent_total"
      [] f = "adverRx" -> "frr_vrrp_advertisements_received_total"
      [] f = "garpTx" -> "frr_vrrp_gratuitous_arp_sent_total"
      [] f = "neighborAdverTx" -> "frr_vrrp_neighbor_advertisements_sent_total"
      [] f = "transitions" -> "frr_vrrp_state_transitions_total"

CounterFields == {"adverTx", "adverRx", "garpTx", "neighborAdverTx", "transitions"}

\* statistics field f of block b as the command output has it: <<n>> when the
\* "stats" object of the family has a number under key f, <<>> when the key, the
\* "stats" object or the family object is missing or null
SourceStat(b, f) ==
    LET e == vrrp.raw.a[(b + 1) \div 2]
        fam == IF e.t = "obj" /\ BlockProto(b) \in DOMAIN e.o THEN e.o[BlockProto(b)] ELSE JNull
        stats == IF fam.t = "obj" /\ "stats" \in DOMAIN fam.o THEN fam.o["stats"] ELSE JNull
    IN  IF stats.t = "obj" /\ f \in DOMAIN stats.o /\ stats.o[f].t = "num"
        THEN <<stats.o[f].n>>
        ELSE <<>>

CountersOf(blk, f) == SelectSeq(blk, LAMBDA m : m.desc.fqName = CounterName(f))

\* C2: in every completed (record, family) block and for each of the five
\* statistics fields on its own, the block holds exactly one counter of that field,
\* with the block's four base labels and the field's value (0 included), when the
\* field is present in the command output, and none when it is absent.
C2_CounterIffPresent ==
    LET blocks == Blocks
    IN  /\ Len(blocks) >= BlocksDone
        /\ \A b \in 1..BlocksDone :
              /\ \A f \in CounterFields :
                    LET cs == CountersOf(blocks[b], f)
                    IN  IF SourceStat(b, f) # <<>>
                        THEN /\ Len(cs) = 1
                             /\ cs[1].kind = "counter"
                             /\ cs[1].value = SourceStat(b, f)[1]
                             /\ cs[1].labelValues = BaseLabels(b)
                        ELSE Len(cs) = 0
              /\ Len(CountersIn(blocks[b])) =
                    Cardinality({f \in CounterFields : SourceStat(b, f) # <<>>})

\* a completed block whose only present field is adverRx, with value 0
C2_Witness ==
    /\ BlocksDone >= 1
    /\ SourceStat(1, "adverRx") = <<0>>
    /\ \A f \in CounterFields \ {"adverRx"} : SourceStat(1, f) = <<>>
    /\ Len(CountersIn(Blocks[1])) = 1
    /\ CountersIn(Blocks[1])[1].value = 0

\* whether the command output decodes into the list of records: a list (or null)
\* whose every number field holds a uint32 and every string field a string
Decodes(raw) == ~UnmarshalVrrp(raw).err

\* C3: a failing scrape emits nothing.  When the command fails Update returns the
\* command's error and processVRRPInfo has not run; when the output does not decode
\* Update returns the decode error with the command string and the raw output; in
\* both cases the channel holds no VRRP metric, and VRRP metrics are in the channel
\* only while or after an Update that decoded its output.
C3_FailingScrapeEmitsNothing ==
    /\ vrrp.pc = "done" /\ vrrp.err.kind = "command" =>
          vrrp.raw = NoOutput /\ vrrp.list = <<>> /\ VrrpMetrics = <<>>
    /\ vrrp.pc = "done" /\ vrrp.raw # NoOutput /\ ~Decodes(vrrp.raw) =>
          /\ vrrp.err = [kind |-> "decode", cmd |-> "show vrrp json", output |-> vrrp.raw]
          /\ VrrpMetrics = <<>>
    /\ vrrp.pc = "done" /\ vrrp.raw # NoOutput /\ Decodes(vrrp.raw) => vrrp.err.kind = "nil"
    /\ vrrp.pc = "loop" => Decodes(vrrp.raw)
    /\ VrrpMetrics # <<>> => vrrp.pc = "loop" \/ VrrpOk

\* an Update has returned a decode error for a list of one record, after the BFD
\* collector put its five metrics into the channel
C3_Witness ==
    /\ vrrp.pc = "done" /\ vrrp.err.kind = "decode"
    /\ vrrp.raw.t = "arr" /\ Len(vrrp.raw.a) = 1
    /\ BfdOk /\ Len(sink) = 5 /\ VrrpMetrics = <<>>

AllZero(blk) == \A i \in 1..3 : StatesOf(blk)[i].value = 0

EmptyInstance(inst) ==
    inst.Status = "" /\ \A f \in CounterFields : inst.Statistics[f] = <<>>

\* C4, as stated: every completed block holds its three vrrp_state metrics, and a
\* block whose sub-record is empty or whose status is none of the three names
\* holds them all 0 and holds no counter.
C4_UnknownStatusNoCounters ==
    LET blocks == Blocks
    IN  /\ VrrpOk => Len(StateMetrics) = 6 * Len(vrrp.list)
        /\ Len(blocks) >= BlocksDone
        /\ \A b \in 1..BlocksDone :
              /\ ThreeStates(blocks[b], b)
              /\ EmptyInstance(BlockInstance(b)) \/ ~KnownStatus(BlockInstance(b).Status) =>
                    AllZero(blocks[b]) /\ Len(CountersIn(blocks[b])) = 0

\* C4, amended: no family is skipped, so N records yield exactly 6*N vrrp_state
\* metrics; a block whose status is none of the three names in any letter case
\* (the empty status included) holds its three vrrp_state metrics all 0, and it
\* holds one counter per statistics field present in its sub-record: none for an
\* empty sub-record, but as many as are present when only the status is unknown.
C4_NoFamilySkipped ==
    LET blocks == Blocks
    IN  /\ VrrpOk => Len(StateMetrics) = 6 * Len(vrrp.list)
        /\ Len(blocks) >= BlocksDone
        /\ \A b \in 1..BlocksDone :
              /\ ThreeStates(blocks[b], b)
              /\ ~KnownStatus(BlockInstance(b).Status) => AllZero(blocks[b])
              /\ Len(CountersIn(blocks[b])) =
                    Cardinality({f \in CounterFields : BlockInstance(b).Statistics[f] # <<>>})
              /\ EmptyInstance(BlockInstance(b)) =>
                    AllZero(blocks[b]) /\ Len(CountersIn(blocks[b])) = 0

\* a scrape has returned whose v4 block has an unknown status and all five counters
\* and whose v6 block is the empty sub-record
C4_Witness ==
    /\ VrrpOk /\ Len(vrrp.list) = 1
    /\ vrrp.list[1].V4Info.Status = "Fault" /\ Len(CountersIn(Blocks[1])) = 5
    /\ AllZero(Blocks[1])
    /\ EmptyInstance(vrrp.list[1].V6Info) /\ Len(Blocks[2]) = 3

\* C5, as stated: every label value of every VRRP metric in the channel is
\* non-empty (a record with an unknown dimension would emit nothing).
C5_NoEmptyLabelValue ==
    \A i \in 1..Len(VrrpMetrics) :
        \A k \in 1..Len(VrrpMetrics[i].labelValues) : VrrpMetrics[i].labelValues[k] # ""

\* C5, amended: every VRRP metric carries exactly one value per label name of its
\* descriptor, in the order proto, vrid, interface, subinterface (and state for
\* vrrp_state); proto is "v4" or "v6", vrid is the decimal id and state is one of
\* the three names, so these are never empty; interface and subinterface are the
\* record's strings as decoded, and when one of them is empty the metrics of the
\* block are emitted all the same, with the empty string as the label value.
C5_CompleteOrderedLabels ==
    LET blocks == Blocks
    IN  /\ Len(blocks) >= BlocksDone
        /\ \A b \in 1..BlocksDone :
              /\ Len(blocks[b]) >= 3
              /\ \A i \in 1..Len(blocks[b]) :
                    LET m == blocks[b][i]
                    IN  /\ m.desc.labelNames =
                              IF IsState(m)
                              THEN <<"proto", "vrid", "interface", "subinterface", "state">>
                              ELSE <<"proto", "vrid", "interface", "subinterface">>
                        /\ Len(m.labelValues) = Len(m.desc.labelNames)
                        /\ m.labelValues[1] = BlockProto(b)
                        /\ m.labelValues[2] = DecimalOf(BlockRecord(b).Vrid)
                        /\ m.labelValues[2] # ""
                        /\ m.labelValues[3] = BlockRecord(b).Interface
                        /\ m.labelValues[4] = BlockInstance(b).Subinterface
                        /\ IsState(m) => m.labelValues[5] \in {"Initialize", "Master", "Backup"}

\* a scrape has returned for a record without interface name whose v4 sub-record
\* has no subinterface name either: its block is in the channel
C5_Witness ==
    /\ VrrpOk /\ Len(vrrp.list) = 1
    /\ vrrp.list[1].Interface = "" /\ vrrp.list[1].V4Info.Subinterface = ""
    /\ Len(Blocks[1]) = 3 /\ Blocks[1][1].labelValues = <<"v4", "255", "", "", "Initialize">>
    /\ Len(Blocks[2]) = 8

(***************************************************************************)
(* BFD.                                                                    *)
(***************************************************************************)
BagOf(q) == [x \in {q[i] : i \in 1..Len(q)} |-> Cardinality({i \in 1..Len(q) : q[i] = x})]

Named(q, name) == SelectSeq(q, LAMBDA m : m.desc.fqName = name)

\* the peer records of the BFD command output
SourcePeers == IF bfd.raw.t = "arr" THEN bfd.raw.a ELSE <<>>

BfdDecoded == BfdOk \/ bfd.pc = "loop"

\* C6: for every decoded peer table the channel gets exactly one bfd_peer_count
\* metric, a gauge without labels whose value is the number of peer records,
\* whatever their statuses (also for a table without records).
C6_PeerCount ==
    /\ Len(Named(sink, "frr_bfd_peer_count")) <= 1
    /\ BfdDecoded /\ (BfdOk \/ bfd.rec > 0) =>
          /\ Len(Named(sink, "frr_bfd_peer_count")) = 1
          /\ Named(sink, "frr_bfd_peer_count")[1] =
                [desc |-> [fqName |-> "frr_bfd_peer_count", labelNames |-> <<>>],
                 kind |-> "gauge", value |-> Len(SourcePeers), labelValues |-> <<>>]
    /\ bfd.pc = "done" /\ ~BfdOk => Len(Named(sink, "frr_bfd_peer_count")) = 0

\* the table of bfd_test.go has been processed: three peers, one of them down
C6_Witness ==
    /\ BfdOk /\ Len(SourcePeers) = 3
    /\ Named(sink, "frr_bfd_peer_count")[1].value = 3
    /\ \E i \in 1..3 : SourcePeers[i].o["status"].s = "down"

ExpectedUptime(p) ==
    [desc |-> [fqName |-> "frr_bfd_peer_uptime", labelNames |-> <<"local", "peer">>],
     kind |-> "counter", value |-> p.o["uptime"].n,
     labelValues |-> <<p.o["local"].s, p.o["peer"].s>>]

ExpectedPeerState(p) ==
    [desc |-> [fqName |-> "frr_bfd_peer_state", labelNames |-> <<"local", "peer">>],
     kind |-> "gauge", value |-> IF p.o["status"].s = "up" THEN 1 ELSE 0,
     labelValues |-> <<p.o["local"].s, p.o["peer"].s>>]

\* C7: when processBFDPeers has returned, the channel holds for every peer record
\* one bfd_peer_uptime counter with the record's uptime and one bfd_peer_state
\* gauge, 1 for status up and 0 for any other, both labelled (local, peer); with
\* the peer count that is all: N records yield 1 + 2*N metrics.
C7_PeerMetrics ==
    BfdOk =>
        /\ Len(BfdMetrics) = 1 + 2 * Len(SourcePeers)
        /\ BagOf(Named(sink, "frr_bfd_peer_uptime")) =
              BagOf([i \in 1..Len(SourcePeers) |-> ExpectedUptime(SourcePeers[i])])
        /\ BagOf(Named(sink, "frr_bfd_peer_state")) =
              BagOf([i \in 1..Len(SourcePeers) |-> ExpectedPeerState(SourcePeers[i])])

\* the table of bfd_test.go has been processed: 7 metrics, states 1, 1 and 0
C7_Witness ==
    /\ BfdOk /\ bfd.raw = BfdFixture /\ Len(BfdMetrics) = 7
    /\ \E i, j, k \in 1..3 :
          /\ Named(sink, "frr_bfd_peer_state")[i].value = 1
          /\ Named(sink, "frr_bfd_peer_state")[i].labelValues = <<"10.10.141.81", "10.10.141.61">>
          /\ Named(sink, "frr_bfd_peer_state")[j].value = 1
          /\ Named(sink, "frr_bfd_peer_state")[j].labelValues = <<"10.10.141.81", "10.10.141.62">>
          /\ Named(sink, "frr_bfd_peer_state")[k].value = 0
          /\ Named(sink, "frr_bfd_peer_state")[k].labelValues = <<"10.10.141.81", "10.10.141.63">>

\* C8, as stated: every counter in the channel is not negative and every gauge,
\* the BFD peer count included, is 0 or 1.
C8_GaugesZeroOrOne ==
    \A i \in 1..Len(sink) :
        /\ sink[i].kind = "counter" => sink[i].value >= 0
        /\ sink[i].kind = "gauge" => sink[i].value \in {0, 1}

\* C8, amended: every counter in the channel (BFD uptime, the five VRRP
\* statistics) is not negative; every state gauge (vrrp_state, bfd_peer_state) is
\* 0 or 1; the bfd_peer_count gauge is the number of peer records, which is not
\* negative and exceeds 1 for a table of two or more peers.
C8_ValueRanges ==
    \A i \in 1..Len(sink) :
        /\ sink[i].kind \in {"counter", "gauge"}
        /\ sink[i].kind = "counter" <=>
              sink[i].desc.fqName \in {CounterName(f) : f \in CounterFields} \cup {"frr_bfd_peer_uptime"}
        /\ sink[i].kind = "counter" => sink[i].value >= 0
        /\ sink[i].desc.fqName \in {"frr_vrrp_state", "frr_bfd_peer_state"} =>
              sink[i].value \in {0, 1}
        /\ sink[i].desc.fqName = "frr_bfd_peer_count" => sink[i].value = Len(SourcePeers)

\* the channel holds the peer count of the table of bfd_test.go, which is 3, and a
\* VRRP counter of value 0
C8_Witness ==
    /\ \E i \in 1..Len(sink) : sink[i].desc.fqName = "frr_bfd_peer_count" /\ sink[i].value = 3
    /\ \E i \in 1..Len(sink) : IsVrrp(sink[i]) /\ sink[i].kind = "counter" /\ sink[i].value = 0

(***************************************************************************)
(* Order and concurrency.                                                  *)
(***************************************************************************)
CounterOrder == <<"adverTx", "adverRx", "garpTx", "neighborAdverTx", "transitions">>

\* the metrics of one (record, family) block in the stated order: the three state
\* gauges for Initialize, Master, Backup, then the present counters in CounterOrder
ExpectedBlock(proto, vr, inst) ==
    LET base == <<proto, DecimalOf(vr.Vrid), vr.Interface, inst.Subinterface>>
        present == SelectSeq(CounterOrder, LAMBDA f : inst.Statistics[f] # <<>>)
    IN  [i \in 1..3 |->
            [desc |-> [fqName |-> "frr_vrrp_state",
                       labelNames |-> <<"proto", "vrid", "interface", "subinterface", "state">>],
             kind |-> "gauge",
             value |-> IF inst.Status \in SpelledAs(StateNames[i]) THEN 1 ELSE 0,
             labelValues |-> Append(base, StateNames[i])]]
        \o [i \in 1..Len(present) |->
               [desc |-> [fqName |-> CounterName(present[i]),
                          labelNames |-> <<"proto", "vrid", "interface", "subinterface">>],
                kind |-> "counter",
                value |-> inst.Statistics[present[i]][1],
                labelValues |-> base]]

RECURSIVE ExpectedVrrpFrom(_, _)
\* records i.. of the list in input order, the v4 block of each before its v6 block
ExpectedVrrpFrom(list, i) ==
    IF i > Len(list) THEN <<>>
    ELSE ExpectedBlock("v4", list[i], list[i].V4Info)
             \o ExpectedBlock("v6", list[i], list[i].V6Info)
             \o ExpectedVrrpFrom(list, i + 1)

ExpectedVrrp == ExpectedVrrpFrom(vrrp.list, 1)

IsPrefix(p, q) == Len(p) <= Len(q) /\ p = SubSeq(q, 1, Len(p))

\* C9: the VRRP metrics reach the channel in an order fixed by the input: records
\* in input order, the v4 block of a record before its v6 block, in a block the
\* state gauges for Initialize, Master, Backup and then the present counters in the
\* order adverTx, adverRx, garpTx, neighborAdverTx, transitions; at every moment
\* the metrics sent so far are the first ones of that order, and all of it once
\* Update has returned.
C9_DeterministicOrder ==
    /\ IsPrefix(VrrpMetrics, ExpectedVrrp)
    /\ VrrpOk => VrrpMetrics = ExpectedVrrp

\* a list of two records has been processed, the first with one counter and the
\* second with all five in its v4 block
C9_Witness ==
    /\ VrrpOk /\ Len(vrrp.list) = 2 /\ Len(VrrpMetrics) = 7 + 11
    /\ VrrpMetrics[4].desc.fqName = "frr_vrrp_advertisements_sent_total"
    /\ VrrpMetrics[5].labelValues = <<"v6", "1", "eth0", "", "Initialize">>
    /\ VrrpMetrics[15].desc.fqName = "frr_vrrp_state_transitions_total"

\* the BFD metrics of a decoded table in the order processBFDPeers sends them
ExpectedBfd ==
    IF ~BfdDecoded THEN <<>>
    ELSE <<[desc |-> [fqName |-> "frr_bfd_peer_count", labelNames |-> <<>>],
            kind |-> "gauge", value |-> Len(SourcePeers), labelValues |-> <<>>]>>
         \o [k \in 1..2 * Len(SourcePeers) |->
                IF k % 2 = 1 THEN ExpectedUptime(SourcePeers[(k + 1) \div 2])
                ELSE ExpectedPeerState(SourcePeers[k \div 2])]

\* the error Update returns for a command output, whatever the other collector does
ExpectedError(c, cmd, ok) ==
    IF c.raw = NoOutput THEN CommandError
    ELSE IF ok THEN NoError
    ELSE [kind |-> "decode", cmd |-> cmd, output |-> c.raw]

\* C10: with the two Updates running concurrently on one channel, under every
\* interleaving each collector's metrics are in the channel exactly as it sends them
\* when run alone on the same output (none lost, duplicated or altered, nothing
\* else in the channel), so that when both have returned the channel's metrics are,
\* as a multiset, those of the one and those of the other; each Update's result
\* depends on its own command output only, and a collector that failed has added
\* nothing while the other's metrics are all there.
C10_ConcurrentUnion ==
    /\ IsPrefix(VrrpMetrics, ExpectedVrrp)
    /\ IsPrefix(BfdMetrics, ExpectedBfd)
    /\ Len(sink) = Len(VrrpMetrics) + Len(BfdMetrics)
    /\ vrrp.pc = "done" =>
          /\ VrrpMetrics = ExpectedVrrp
          /\ vrrp.err = ExpectedError(vrrp, "show vrrp json", ~UnmarshalVrrp(vrrp.raw).err)
          /\ vrrp.err.kind # "nil" => VrrpMetrics = <<>>
    /\ bfd.pc = "done" =>
          /\ BfdMetrics = ExpectedBfd
          /\ bfd.err = ExpectedError(bfd, "show bfd peers json", ~UnmarshalBfd(bfd.raw).err)
          /\ bfd.err.kind # "nil" => BfdMetrics = <<>>
    /\ vrrp.pc = "done" /\ bfd.pc = "done" => BagOf(sink) = BagOf(ExpectedVrrp \o ExpectedBfd)

\* both Updates have returned without error and their metrics alternate in the
\* channel: VRRP, BFD, VRRP, BFD
C10_Witness ==
    /\ VrrpOk /\ BfdOk /\ Len(VrrpMetrics) = 8 /\ Len(BfdMetrics) = 5
    /\ \E i, j, k, l \in 1..Len(sink) :
          /\ i < j /\ j < k /\ k < l
          /\ IsVrrp(sink[i]) /\ IsBfd(sink[j]) /\ IsVrrp(sink[k]) /\ IsBfd(sink[l])

====
